---- MODULE Spec2Model ----
(***************************************************************************)
(* lazymem: lazily populated, memory-mappable file descriptors.           *)
(*                                                                         *)
(* Four state machines share this module:                                  *)
(*   - the sparse buffer  (package sparse: frames, finish, blocking reads) *)
(*   - the linear buffer  (package linear: bitmap, finish, storage)        *)
(*   - the filesystem adapter and Manager.create (package lazymem)         *)
(*   - Manager.New, Shutdown and cleanup (the mountpoint directory)        *)
(* Each has its own specifications; the variables of the machines a        *)
(* specification does not run stay at their initial values.                *)
(***************************************************************************)
EXTENDS Integers, Sequences, FiniteSets, TLC

VARIABLES
    sparse,     \* sparse.Buffer: [frames, finish]
    sreader,    \* per reader thread: the ReadAt call in progress on the sparse buffer
    produced,   \* history: the offsets ProduceFrame has supplied so far
    delivered,  \* history: per offset, how many times a ReadAt copied that byte out
    linear,     \* linear.Buffer: [len, bitmap, finish]
    lreader,    \* per reader thread: the ReadAt call in progress on the linear buffer
    lproducer,  \* the producer thread: between its Unlock and its cond.Broadcast, or idle
    storage,    \* linear.Buffer: the bytes of b.linear written over, and whether b.closed is closed
    fs,         \* fileSystem: [nodes, names, lastId, pages, lock], and whether it panicked
    mgr,        \* per caller thread: the Manager.create call in progress
    worker,     \* per server goroutine: the ReadFile, WriteFile or ReleaseFileHandle in progress
    kern,       \* the kernel's side: inodes it holds a lookup reference on, open handles
    hist,       \* history: buffers registered, close calls, creates that succeeded
    manager,    \* per Manager: where New / Shutdown stands, Mountpoint, rmdir, err
    dirs        \* the operating system's side: what is at each mountpoint path

sparseVars == <<sparse, sreader, produced, delivered>>
linearVars == <<linear, lreader, lproducer, storage>>

fsVars == <<fs, mgr, worker, kern, hist>>

mountVars == <<manager, dirs>>

vars == <<sparse, sreader, produced, delivered, linear, lreader, lproducer, storage,
          fs, mgr, worker, kern, hist, manager, dirs>>

(***************************************************************************)
(* Bounds                                                                  *)
(***************************************************************************)
SparseSize == 3        \* offsets 0 .. SparseSize-1 may be produced and read
MaxFrameLen == 3       \* longest frame one ProduceFrame call supplies

LinearBlocks == 2      \* the linear storage spans this many blocks
MaxBuffers == 2        \* buffers registered over the life of the filesystem
MaxHandles == 1        \* handles the kernel keeps open on one inode at a time
MaxCloses == 2         \* close calls counted per buffer: the count saturates at this value

SReaders == {"r1", "r2"}
LReaders == {"r1", "r2"}
Callers == {"c1", "c2"}      \* threads calling Manager.Create*
Workers == {"w1"}            \* server goroutines running ReadFile, WriteFile, ReleaseFileHandle

Min(a, b) == IF a < b THEN a ELSE b

(***************************************************************************)
(* Sparse buffer                                                           *)
(***************************************************************************)

\* The byte the producer puts at absolute offset o (frame i of TestDelay starts
\* with byte(i)): distinct offsets carry distinct bytes.
ByteAt(o) == 100 + o

FrameData(offset, len) == [k \in 1..len |-> ByteAt(offset + k - 1)]

NewBuffer == [frames |-> <<>>, finish |-> FALSE]

\* sort.Search(n, f): binary search for the smallest index in [0, n) at which
\* frames[i].offset >= offset. Indices are 0-based as in the Go code.
RECURSIVE SortSearch(_, _, _, _)
SortSearch(fr, offset, i, j) ==
    IF i < j
    THEN LET h == (i + j) \div 2
         IN  IF ~(fr[h + 1].offset >= offset)
             THEN SortSearch(fr, offset, h + 1, j)
             ELSE SortSearch(fr, offset, i, h)
    ELSE i

searchForFrame(fr, offset) == SortSearch(fr, offset, 0, Len(fr))

\* o := int(offset - f.offset); o >= 0 && o < len(f.data)
Covers(f, offset) == offset - f.offset >= 0 /\ offset - f.offset < Len(f.data)

\* Insert one frame at 0-based index i: append(frames[:i], append([]frame{f}, frames[i:]...)...)
InsertAt(fr, i, f) == SubSeq(fr, 1, i) \o <<f>> \o SubSeq(fr, i + 1, Len(fr))

\* sliceFrame that hands the bytes out and leaves the frame list as it was.
sliceFrameKeep(fr, i, o, resultLength) ==
    LET tail == SubSeq(fr[i + 1].data, o + 1, Len(fr[i + 1].data))
    IN  [result |-> IF Len(tail) > resultLength THEN SubSeq(tail, 1, resultLength) ELSE tail,
         frames |-> fr]

\* sliceFrame(i, f, o, resultLength): the bytes handed out and the frame list left.
sliceFrame(fr, i, o, resultLength) ==
    LET f == fr[i + 1]
        tail == SubSeq(f.data, o + 1, Len(f.data))
        result == IF Len(tail) > resultLength THEN SubSeq(tail, 1, resultLength) ELSE tail
    IN  IF o = 0
        THEN IF Len(f.data) = Len(result)
             THEN \* remove whole frame
                  [result |-> result,
                   frames |-> SubSeq(fr, 1, i) \o SubSeq(fr, i + 2, Len(fr))]
             ELSE \* remove beginning of frame
                  [result |-> result,
                   frames |-> [fr EXCEPT ![i + 1] =
                                  [offset |-> f.offset + Len(result),
                                   data |-> SubSeq(f.data, Len(result) + 1, Len(f.data))]]]
        ELSE LET prefix == SubSeq(f.data, 1, o)
                 suffix == SubSeq(f.data, o + Len(result) + 1, Len(f.data))
                 kept == [fr EXCEPT ![i + 1] = [offset |-> f.offset, data |-> prefix]]
             IN  IF Len(suffix) > 0
                 THEN \* the new frame goes in at index i, in front of the shortened frame
                      [result |-> result,
                       frames |-> InsertAt(kept, i,
                                     [offset |-> f.offset + o + Len(result), data |-> suffix])]
                 ELSE [result |-> result, frames |-> kept]

\* The frame lookup of getData: the 0-based index of the frame found to cover
\* offset (the search result, else its predecessor), or -1.
getDataIndex(fr, offset) ==
    LET i == searchForFrame(fr, offset)
    IN  IF i < Len(fr) /\ Covers(fr[i + 1], offset) THEN i
        ELSE IF i > 0 /\ Covers(fr[i], offset) THEN i - 1
        ELSE -1

\* Apply F to the value of x, computing x once.
Once(F(_), x) == CHOOSE res \in {F(v) : v \in {x}} : TRUE

\* The loop of ReadAt run with the lock held until dest is full or getData finds
\* no frame: st is [frames, offset, remain, out, nodata].
RECURSIVE ReadLoop(_)
ReadLoopTaken(st, s) ==
    ReadLoop([frames |-> s.frames,
              offset |-> st.offset + Len(s.result),
              remain |-> st.remain - Len(s.result),
              out |-> st.out \o s.result,
              nodata |-> FALSE])

ReadLoopFound(st, i) ==
    IF i = -1
    THEN [st EXCEPT !.nodata = TRUE]
    ELSE LET Taken(s) == ReadLoopTaken(st, s)
         IN  Once(Taken, sliceFrame(st.frames, i, st.offset - st.frames[i + 1].offset,
                                    st.remain))

ReadLoopBody(st) ==
    IF st.remain > 0
    THEN LET Found(i) == ReadLoopFound(st, i)
         IN  Once(Found, getDataIndex(st.frames, st.offset))
    ELSE st

ReadLoop(st) == Once(ReadLoopBody, st)

IdleReader == [pc |-> "idle", offset0 |-> 0, len0 |-> 0, offset |-> 0, remain |-> 0,
               out |-> <<>>, err |-> "nil",
               blocked |-> FALSE,   \* history: this call has been in cond.Wait
               absent |-> FALSE,    \* history: no frame covered the offset when the
                                    \* call last went into cond.Wait
               seen |-> 0]          \* history: frames in the list at the call, for a
                                    \* call that asks for all of a fresh partition

Range(offset, len) == offset .. (offset + len - 1)

\* The offsets the frames of the list hold bytes for.
FrameOffsets(fr) == UNION {Range(fr[i].offset, Len(fr[i].data)) : i \in 1..Len(fr)}

\* Count the bytes a pass of the loop copied out: gained is the sequence of new
\* bytes, the first of which sits at absolute offset from.
Deliver(d, from, gained) ==
    [o \in DOMAIN d |->
        IF o >= from /\ o < from + Len(gained) THEN d[o] + 1 ELSE d[o]]

\* One pass of ReadAt under the lock, from reader state rd: it ends in return
\* (dest full, or no frame and finish), or in cond.Wait.
ReadPass(r, rd) ==
    \E st \in {ReadLoop([frames |-> sparse.frames, offset |-> rd.offset,
                         remain |-> rd.remain, out |-> rd.out, nodata |-> FALSE])} :
    LET gained == SubSeq(st.out, Len(rd.out) + 1, Len(st.out))
        next == [rd EXCEPT !.offset = st.offset, !.remain = st.remain, !.out = st.out]
    IN  /\ sparse' = [sparse EXCEPT !.frames = st.frames]
        /\ delivered' = Deliver(delivered, rd.offset, gained)
        /\ sreader' = [sreader EXCEPT ![r] =
               IF ~st.nodata THEN [next EXCEPT !.pc = "done", !.err = "nil"]
               ELSE IF sparse.finish THEN [next EXCEPT !.pc = "done", !.err = "EOF"]
               ELSE [next EXCEPT !.pc = "waiting", !.blocked = TRUE,
                                 !.absent = st.offset \notin FrameOffsets(st.frames)]]
        /\ UNCHANGED <<produced, linearVars, fsVars, mountVars>>

\* Frames partitioning [0, S) have been produced and nothing has been read yet.
Partitioned(S) ==
    /\ S >= 1
    /\ produced = 0..(S - 1)
    /\ \A o \in DOMAIN delivered : delivered[o] = 0

\* ReadAt(dest, offset) is called: len(dest) = length.
ReadAt(r, offset, length) ==
    /\ sreader[r].pc = "idle"
    /\ ReadPass(r, [IdleReader EXCEPT !.offset0 = offset, !.len0 = length,
                                      !.offset = offset, !.remain = length,
                                      !.seen = IF offset = 0 /\ Partitioned(length)
                                               THEN Len(sparse.frames) ELSE 0])

\* A reader woken out of cond.Wait takes the lock again and retries getData.
ReadAtWake(r) ==
    /\ sreader[r].pc = "woken"
    /\ ReadPass(r, sreader[r])

\* The caller takes the result; the thread is free for another call.
ReadAtReturn(r) ==
    /\ sreader[r].pc = "done"
    /\ sreader' = [sreader EXCEPT ![r] = IdleReader]
    /\ UNCHANGED <<sparse, produced, delivered, linearVars, fsVars, mountVars>>

\* cond.Broadcast(): every reader in cond.Wait becomes runnable.
Broadcast(rs) ==
    [r \in DOMAIN rs |-> IF rs[r].pc = "waiting" THEN [rs[r] EXCEPT !.pc = "woken"] ELSE rs[r]]

\* ProduceFrame that appends the frame at the end of the list.
ProduceFrameAppend(offset, len) ==
    /\ Range(offset, len) \cap produced = {}
    /\ sparse' = [sparse EXCEPT !.frames =
                     Append(sparse.frames, [offset |-> offset, data |-> FrameData(offset, len)])]
    /\ sreader' = Broadcast(sreader)
    /\ produced' = produced \cup Range(offset, len)
    /\ UNCHANGED <<delivered, linearVars, fsVars, mountVars>>

\* ProduceFrame(data, offset); callers never produce overlapping frames.
ProduceFrame(offset, len) ==
    /\ Range(offset, len) \cap produced = {}
    /\ LET i == searchForFrame(sparse.frames, offset)
       IN  sparse' = [sparse EXCEPT !.frames =
                         InsertAt(sparse.frames, i,
                                  [offset |-> offset, data |-> FrameData(offset, len)])]
    /\ sreader' = Broadcast(sreader)
    /\ produced' = produced \cup Range(offset, len)
    /\ UNCHANGED <<delivered, linearVars, fsVars, mountVars>>

\* ProductionFinished that sets the flag and wakes nobody.
ProductionFinishedQuiet ==
    /\ ~sparse.finish
    /\ sparse' = [sparse EXCEPT !.finish = TRUE]
    /\ UNCHANGED <<sreader, produced, delivered, linearVars, fsVars, mountVars>>

ProductionFinished ==
    /\ ~sparse.finish
    /\ sparse' = [sparse EXCEPT !.finish = TRUE]
    /\ sreader' = Broadcast(sreader)
    /\ UNCHANGED <<produced, delivered, linearVars, fsVars, mountVars>>

SparseStart ==
    /\ sparse = NewBuffer
    /\ sreader = [r \in SReaders |-> IdleReader]
    /\ produced = {}
    /\ delivered = [o \in 0..(SparseSize - 1) |-> 0]

(***************************************************************************)
(* Linear buffer                                                           *)
(***************************************************************************)
BlockSize == 131072

WordBits == 64

\* (a + b - 1) / b on non-negative operands
CeilDiv(a, b) == (a + b - 1) \div b

\* NewBuffer(linear): bitLen bits are needed, wordLen words of 64 bits are kept.
bitLen(len) == CeilDiv(len, BlockSize)
wordLen(len) == CeilDiv(bitLen(len), WordBits)

NewLinearBuffer(len) == [len |-> len, bitmap |-> {}, finish |-> FALSE]

\* checkForBlocks that also asks for the bit at end.
checkForBlocksInclusive(bitmap, begin, end) == \A i \in begin..end : i \in bitmap

\* checkForBlocks(begin, end): every bit in [begin, end) is set.
checkForBlocks(bitmap, begin, end) == \A i \in begin..(end - 1) : i \in bitmap

\* The first block of the range rounded down: the block that contains offset.
waitBeginFloor(offset) == offset \div BlockSize

\* waitForBlocks: begin and end of the block range a read waits for.
waitBegin(offset) == (offset + BlockSize - 1) \div BlockSize
waitEnd(offset, length) == (offset + length + BlockSize - 1) \div BlockSize

IdleLinearReader == [pc |-> "idle", offset |-> 0, length |-> 0, n |-> 0, err |-> "nil",
                     blocked |-> FALSE]  \* history: this call has been in cond.Wait

\* One pass of the loop of waitForBlocks under the lock, then the rest of ReadAt:
\* n = copy(target, b.linear[sourceOffset:]).
LinearReadPass(r, rd) ==
    /\ lreader' = [lreader EXCEPT ![r] =
           IF checkForBlocks(linear.bitmap, waitBegin(rd.offset), waitEnd(rd.offset, rd.length))
           THEN [rd EXCEPT !.pc = "done", !.n = Min(rd.length, linear.len - rd.offset)]
           ELSE IF linear.finish
           THEN [rd EXCEPT !.pc = "done", !.err = "EOF"]
           ELSE [rd EXCEPT !.pc = "waiting", !.blocked = TRUE]]
    /\ UNCHANGED <<linear, lproducer, storage, sparseVars, fsVars, mountVars>>

\* ReadAt(target, sourceOffset) is called: len(target) = length.
LinearReadAt(r, offset, length) ==
    /\ lproducer # "panic"
    /\ lreader[r].pc = "idle"
    /\ offset <= linear.len
    /\ LinearReadPass(r, [IdleLinearReader EXCEPT !.offset = offset, !.length = length])

\* A reader woken out of cond.Wait takes the lock again and checks again.
LinearReadAtWake(r) ==
    /\ lproducer # "panic"
    /\ lreader[r].pc = "woken"
    /\ LinearReadPass(r, lreader[r])

LinearReadAtReturn(r) ==
    /\ lproducer # "panic"
    /\ lreader[r].pc = "done"
    /\ lreader' = [lreader EXCEPT ![r] = IdleLinearReader]
    /\ UNCHANGED <<linear, lproducer, storage, sparseVars, fsVars, mountVars>>

\* uint(x) / 64 for an int x: a negative x wraps around to 2^w + x. The model
\* keeps w = 32; every comparison below falls the same way for w = 64.
UintWords == 67108864
uintWord(x) == IF x >= 0 THEN x \div WordBits ELSE UintWords + (x \div WordBits)

\* BlockPopulated that returns after its Unlock, without the Broadcast.
BlockPopulatedQuiet(index) ==
    /\ lproducer = "idle"
    /\ IF uintWord(index) >= wordLen(linear.len)
       THEN /\ lproducer' = "panic"
            /\ UNCHANGED linear
       ELSE /\ linear' = [linear EXCEPT !.bitmap = @ \cup {index}]
            /\ lproducer' = "idle"
    /\ UNCHANGED <<lreader, storage, sparseVars, fsVars, mountVars>>

\* BlockPopulated(index) up to its Unlock: the word index is checked, not the bit.
\* A panic ends the process.
BlockPopulated(index) ==
    /\ lproducer = "idle"
    /\ IF uintWord(index) >= wordLen(linear.len)
       THEN /\ lproducer' = "panic"
            /\ UNCHANGED linear
       ELSE /\ linear' = [linear EXCEPT !.bitmap = @ \cup {index}]
            /\ lproducer' = "broadcast"
    /\ UNCHANGED <<lreader, storage, sparseVars, fsVars, mountVars>>

\* The bits the loop of BlocksPopulated sets before it ends, or before it indexes
\* past the last word of the bitmap.
BlocksSet(index, count, words) ==
    {i \in index..(index + count - 1) : i < WordBits * words}

\* BlocksPopulated(index, count) up to its Unlock: the two checks compare word
\* indexes; the loop panics when it reaches a word the bitmap does not have.
BlocksPopulated(index, count) ==
    /\ lproducer = "idle"
    /\ IF \/ uintWord(index) > uintWord(index + count)
          \/ uintWord(index + count) > wordLen(linear.len)
       THEN /\ lproducer' = "panic"
            /\ UNCHANGED linear
       ELSE /\ linear' = [linear EXCEPT
                   !.bitmap = @ \cup BlocksSet(index, count, wordLen(linear.len))]
            /\ lproducer' = IF index + count > WordBits * wordLen(linear.len) /\ count > 0
                            THEN "panic" ELSE "broadcast"
    /\ UNCHANGED <<lreader, storage, sparseVars, fsVars, mountVars>>

\* PopulationFinished that sets the flag and skips the broadcast.
PopulationFinishedQuiet ==
    /\ lproducer = "idle"
    /\ ~linear.finish
    /\ linear' = [linear EXCEPT !.finish = TRUE]
    /\ UNCHANGED <<lproducer, lreader, storage, sparseVars, fsVars, mountVars>>

\* PopulationFinished up to its Unlock.
PopulationFinished ==
    /\ lproducer = "idle"
    /\ ~linear.finish
    /\ linear' = [linear EXCEPT !.finish = TRUE]
    /\ lproducer' = "broadcast"
    /\ UNCHANGED <<lreader, storage, sparseVars, fsVars, mountVars>>

\* b.cond.Broadcast(), the last statement of the three producer methods.
LinearBroadcast ==
    /\ lproducer = "broadcast"
    /\ lreader' = Broadcast(lreader)
    /\ lproducer' = "idle"
    /\ UNCHANGED <<linear, storage, sparseVars, fsVars, mountVars>>

\* The bytes of the storage NewBuffer was given: offset o holds StorageByte(o)
\* until a WriteAt puts another byte there.
StorageByte(o) == 0

\* The bytes source[k] of the writes issued, none of them a byte the storage held.
SourceByte(k) == 10 + k

NewStorage == [written |-> <<>>, closed |-> FALSE]

\* b.linear[o]
ByteOf(st, o) == IF o \in DOMAIN st.written THEN st.written[o] ELSE StorageByte(o)

\* copy(b.linear[targetOffset:], source): the bytes written over after it, n of
\* them copied.
CopyInto(written, targetOffset, n) ==
    [o \in DOMAIN written \cup (targetOffset..(targetOffset + n - 1)) |->
        IF o >= targetOffset /\ o < targetOffset + n
        THEN SourceByte(o - targetOffset)
        ELSE written[o]]

\* WriteAt that also marks the block of targetOffset populated.
WriteAtPopulating(targetOffset, length) ==
    /\ lproducer # "panic"
    /\ IF targetOffset < 0 \/ targetOffset > linear.len
       THEN /\ lproducer' = "panic"
            /\ UNCHANGED <<storage, linear>>
       ELSE /\ storage' = [storage EXCEPT !.written =
                   CopyInto(@, targetOffset, Min(length, linear.len - targetOffset))]
            /\ linear' = [linear EXCEPT !.bitmap = @ \cup {targetOffset \div BlockSize}]
            /\ UNCHANGED lproducer
    /\ UNCHANGED <<lreader, sparseVars, fsVars, mountVars>>

\* WriteAt(source, targetOffset) with len(source) = length: the slice expression
\* b.linear[targetOffset:] panics for an offset outside [0, len(b.linear)]; copy
\* stops at the end of the storage. No lock is taken and nothing is signalled.
WriteAt(targetOffset, length) ==
    /\ lproducer # "panic"
    /\ IF targetOffset < 0 \/ targetOffset > linear.len
       THEN /\ lproducer' = "panic"
            /\ UNCHANGED storage
       ELSE /\ storage' = [storage EXCEPT !.written =
                   CopyInto(@, targetOffset, Min(length, linear.len - targetOffset))]
            /\ UNCHANGED lproducer
    /\ UNCHANGED <<linear, lreader, sparseVars, fsVars, mountVars>>

\* Close(): close(b.closed); closing a closed channel panics.
LinearClose ==
    /\ lproducer # "panic"
    /\ IF storage.closed
       THEN /\ lproducer' = "panic"
            /\ UNCHANGED storage
       ELSE /\ storage' = [storage EXCEPT !.closed = TRUE]
            /\ UNCHANGED lproducer
    /\ UNCHANGED <<linear, lreader, sparseVars, fsVars, mountVars>>

LinearStart(len) ==
    /\ linear = NewLinearBuffer(len)
    /\ lreader = [r \in LReaders |-> IdleLinearReader]
    /\ lproducer = "idle"
    /\ storage = NewStorage

\* The storage length: LinearBlocks blocks, the last of them partial.
LinearLen == (LinearBlocks - 1) * BlockSize + 1

\* Offsets and lengths of the reads issued: block-aligned and not.
ReadOffsets == {b * BlockSize + d : b \in 0..(LinearBlocks - 1), d \in {0, 1}}
ReadLengths == {0, 1, BlockSize, LinearLen}

\* Block indexes and counts the producer passes: in range, one past the range,
\* negative, and in a word the bitmap does not have.
BlockIndexes == (-1)..LinearBlocks \cup {WordBits}
BlockCounts == (-1)..LinearBlocks

(***************************************************************************)
(* Filesystem adapter and Manager.create                                   *)
(***************************************************************************)
RootInodeID == 1

pagesize == 4096

Kinds == {"shared", "cloned", "temporal"}

\* Manager.Create / CreateCloned / CreateTemporal: the adapter record built for
\* each kind of buffer.
Adapter(kind, size) ==
    [size |-> size,
     writeAt |-> IF kind = "shared" THEN "WriteAt" ELSE "noWriteAt",
     close |-> IF kind = "temporal" THEN "noClose" ELSE "Close"]

\* The zero value a Go map read yields for a missing key.
ZeroBuffer == [size |-> 0, writeAt |-> "nil", close |-> "nil"]

countPages(size) == (size + (pagesize - 1)) \div pagesize

Digits36 == <<"0", "1", "2", "3", "4", "5", "6", "7", "8", "9", "a", "b", "c", "d", "e",
              "f", "g", "h", "i", "j", "k", "l", "m", "n", "o", "p", "q", "r", "s", "t",
              "u", "v", "w", "x", "y", "z">>

\* strconv.FormatUint(n, 36): the digits of n, most significant first.
RECURSIVE FormatUint36(_)
FormatUint36(n) ==
    IF n < 36 THEN <<Digits36[n + 1]>>
    ELSE Append(FormatUint36(n \div 36), Digits36[(n % 36) + 1])

\* Values fs.rand.Uint64() may return.
RandValues == {7, 43}

newFileSystem ==
    [nodes |-> <<>>, names |-> <<>>, lastId |-> RootInodeID, pages |-> 0,
     lock |-> "free", panic |-> FALSE]

\* m with key k set to v, and m without key k.
MapPut(m, k, v) == [x \in DOMAIN m \cup {k} |-> IF x = k THEN v ELSE m[x]]
MapDelete(m, k) == [x \in DOMAIN m \ {k} |-> m[x]]
MapGet(m, k, zero) == IF k \in DOMAIN m THEN m[k] ELSE zero

\* registerBuffer that takes the lowest id no inode of the map has.
registerBufferReuse(f, b, r) ==
    LET id == RootInodeID + 1 + Cardinality(DOMAIN f.nodes)
        name == FormatUint36(r)
    IN  IF name \in DOMAIN f.names
        THEN [fs |-> [f EXCEPT !.panic = TRUE], id |-> id, name |-> name]
        ELSE [fs |-> [f EXCEPT !.nodes = MapPut(@, id, b),
                               !.names = MapPut(@, name, id),
                               !.lastId = id,
                               !.pages = @ + countPages(b.size)],
              id |-> id, name |-> name]

\* registerBuffer(b) with r the value drawn from fs.rand: the filesystem after it,
\* the id and the name. A name already in the map panics.
registerBuffer(f, b, r) ==
    LET id == f.lastId + 1
        name == FormatUint36(r)
    IN  IF name \in DOMAIN f.names
        THEN [fs |-> [f EXCEPT !.panic = TRUE], id |-> id, name |-> name]
        ELSE [fs |-> [f EXCEPT !.nodes = MapPut(@, id, b),
                               !.names = MapPut(@, name, id),
                               !.lastId = id,
                               !.pages = @ + countPages(b.size)],
              id |-> id, name |-> name]

forgetBufferName(f, name) == [f EXCEPT !.names = MapDelete(@, name)]

\* forgetBufferNode that leaves the page total alone.
forgetBufferNodeKeepPages(f, id) == [f EXCEPT !.nodes = MapDelete(@, id)]

forgetBufferNode(f, id) ==
    [f EXCEPT !.pages = @ - countPages(MapGet(f.nodes, id, ZeroBuffer).size),
              !.nodes = MapDelete(@, id)]

\* The replies of the handlers that return with the lock released and call no
\* buffer capability.
LookUpInode(f, parent, name) ==
    IF parent # RootInodeID THEN [err |-> "ENOENT"]
    ELSE IF name \notin DOMAIN f.names THEN [err |-> "ENOENT"]
    ELSE [err |-> "nil", child |-> f.names[name],
          size |-> MapGet(f.nodes, f.names[name], ZeroBuffer).size, mode |-> "0700"]

GetInodeAttributes(f, inode) ==
    IF inode = RootInodeID THEN [err |-> "nil", size |-> 0, mode |-> "0500|dir"]
    ELSE IF inode \notin DOMAIN f.nodes THEN [err |-> "ENOENT"]
    ELSE [err |-> "nil", size |-> f.nodes[inode].size, mode |-> "0700"]

OpenFile(f, inode) ==
    IF inode \notin DOMAIN f.nodes THEN [err |-> "EIO"]
    ELSE [err |-> "nil", handle |-> inode, keepPageCache |-> TRUE]

FlushFile(f, inode) ==
    IF inode \notin DOMAIN f.nodes THEN [err |-> "ENOENT"] ELSE [err |-> "nil"]

StatFS(f) ==
    [blockSize |-> pagesize, blocks |-> f.pages, ioSize |-> 131072,
     inodes |-> Cardinality(DOMAIN f.nodes) + 1]

Alive == ~fs.panic
Unlocked == fs.lock = "free"

IdleCaller == [pc |-> "idle", buf |-> ZeroBuffer, id |-> 0, name |-> <<>>,
               child |-> 0, err |-> "nil"]
IdleWorker == [pc |-> "idle", op |-> "none", inode |-> 0, buf |-> ZeroBuffer,
               arg |-> 0]  \* the length adjustLen gives the slice handed to the capability

\* create has returned: the caller holds the error, or the fd of buffer id.
Returned(m) == [IdleCaller EXCEPT !.pc = "done", !.id = m.id, !.err = m.err]

CloseCalled(h, id) == [h EXCEPT !.closed[id] = Min(@ + 1, MaxCloses)]

\* Manager.create, line 60: registerBuffer.
Create(c, kind, size, r) ==
    /\ Alive /\ Unlocked
    /\ mgr[c].pc \in {"idle", "done"}
    /\ fs.lastId < RootInodeID + MaxBuffers
    /\ LET reg == registerBuffer(fs, Adapter(kind, size), r)
       IN  /\ fs' = reg.fs
           /\ mgr' = [mgr EXCEPT ![c] =
                  [IdleCaller EXCEPT !.pc = IF reg.fs.panic THEN "panic" ELSE "open",
                                     !.buf = Adapter(kind, size),
                                     !.id = reg.id, !.name = reg.name]]
           /\ hist' = IF reg.fs.panic THEN hist
                      ELSE [hist EXCEPT !.registered = MapPut(@, reg.id, Adapter(kind, size)),
                                        !.kinds = MapPut(@, reg.id, kind),
                                        !.closed = MapPut(@, reg.id, 0)]
    /\ UNCHANGED <<worker, kern, sparseVars, linearVars, mountVars>>

\* syscall.Open fails before the kernel asks the filesystem anything.
OpenFails(c) ==
    /\ Alive
    /\ mgr[c].pc = "open"
    /\ mgr' = [mgr EXCEPT ![c].pc = "forgetName", ![c].err = "EMFILE"]
    /\ UNCHANGED <<fs, worker, kern, hist, sparseVars, linearVars, mountVars>>

\* syscall.Open: the kernel resolves the name with LookUpInode(root, name).
OpenLookUp(c) ==
    /\ Alive /\ Unlocked
    /\ mgr[c].pc = "open"
    /\ LET reply == LookUpInode(fs, RootInodeID, mgr[c].name)
       IN  IF reply.err = "nil"
           THEN /\ mgr' = [mgr EXCEPT ![c].pc = "openFile", ![c].child = reply.child]
                /\ kern' = [kern EXCEPT !.refs = @ \cup {reply.child}]
           ELSE /\ mgr' = [mgr EXCEPT ![c].pc = "forgetName", ![c].err = reply.err]
                /\ UNCHANGED kern
    /\ UNCHANGED <<fs, worker, hist, sparseVars, linearVars, mountVars>>

\* syscall.Open: the kernel opens the inode it found with OpenFile.
OpenOpenFile(c) ==
    /\ Alive /\ Unlocked
    /\ mgr[c].pc = "openFile"
    /\ kern.handles[mgr[c].child] < MaxHandles
    /\ LET reply == OpenFile(fs, mgr[c].child)
       IN  IF reply.err = "nil"
           THEN /\ mgr' = [mgr EXCEPT ![c].pc = "forgetName"]
                /\ kern' = [kern EXCEPT !.handles[mgr[c].child] = @ + 1]
           ELSE /\ mgr' = [mgr EXCEPT ![c].pc = "forgetName", ![c].err = reply.err]
                /\ UNCHANGED kern
    /\ UNCHANGED <<fs, worker, hist, sparseVars, linearVars, mountVars>>

\* Manager.create that leaves the name in the map.
CreateKeepName(c) ==
    /\ Alive /\ Unlocked
    /\ mgr[c].pc = "forgetName"
    /\ mgr' = [mgr EXCEPT ![c] = IF mgr[c].err # "nil" THEN [@ EXCEPT !.pc = "forgetNode"]
                                 ELSE Returned(@)]
    /\ hist' = IF mgr[c].err = "nil" THEN [hist EXCEPT !.created = @ \cup {mgr[c].id}]
               ELSE hist
    /\ UNCHANGED <<fs, worker, kern, sparseVars, linearVars, mountVars>>

\* Manager.create, lines 62-63: forgetBufferName, then return unless open failed.
CreateForgetName(c) ==
    /\ Alive /\ Unlocked
    /\ mgr[c].pc = "forgetName"
    /\ fs' = forgetBufferName(fs, mgr[c].name)
    /\ mgr' = [mgr EXCEPT ![c] = IF mgr[c].err # "nil" THEN [@ EXCEPT !.pc = "forgetNode"]
                                 ELSE Returned(@)]
    /\ hist' = IF mgr[c].err = "nil" THEN [hist EXCEPT !.created = @ \cup {mgr[c].id}]
               ELSE hist
    /\ UNCHANGED <<worker, kern, sparseVars, linearVars, mountVars>>

\* Manager.create on a failed open that leaves the inode in the map.
CreateKeepNode(c) ==
    /\ Alive /\ Unlocked
    /\ mgr[c].pc = "forgetNode"
    /\ mgr' = [mgr EXCEPT ![c].pc = "close"]
    /\ UNCHANGED <<fs, worker, kern, hist, sparseVars, linearVars, mountVars>>

\* Manager.create, line 64: forgetBufferNode.
CreateForgetNode(c) ==
    /\ Alive /\ Unlocked
    /\ mgr[c].pc = "forgetNode"
    /\ fs' = forgetBufferNode(fs, mgr[c].id)
    /\ mgr' = [mgr EXCEPT ![c].pc = "close"]
    /\ UNCHANGED <<worker, kern, hist, sparseVars, linearVars, mountVars>>

\* Manager.create, line 65: b.close(), then return.
CreateClose(c) ==
    /\ Alive
    /\ mgr[c].pc = "close"
    /\ hist' = CloseCalled(hist, mgr[c].id)
    /\ mgr' = [mgr EXCEPT ![c] = Returned(@)]
    /\ UNCHANGED <<fs, worker, kern, sparseVars, linearVars, mountVars>>

\* The kernel opens an inode it holds (a second open of the file).
KernelOpenFile(inode) ==
    /\ Alive /\ Unlocked
    /\ inode \in kern.refs
    /\ kern.handles[inode] < MaxHandles
    /\ kern' = IF OpenFile(fs, inode).err = "nil"
               THEN [kern EXCEPT !.handles[inode] = @ + 1]
               ELSE kern
    /\ UNCHANGED <<fs, mgr, worker, hist, sparseVars, linearVars, mountVars>>

\* ForgetInode that leaves the node map alone.
ForgetInodeKeep(inode) ==
    /\ Alive
    /\ inode = RootInodeID \/ inode \in kern.refs \/ inode \notin DOMAIN fs.nodes
    /\ inode # RootInodeID => Unlocked
    /\ fs' = fs
    /\ kern' = [kern EXCEPT !.refs = @ \ {inode}]
    /\ UNCHANGED <<mgr, worker, hist, sparseVars, linearVars, mountVars>>

\* ForgetInode(inode): the kernel drops its reference; the op may also name an
\* inode the node map does not have (never registered, or forgotten before).
ForgetInode(inode) ==
    /\ Alive
    /\ inode = RootInodeID \/ inode \in kern.refs \/ inode \notin DOMAIN fs.nodes
    /\ inode # RootInodeID => Unlocked
    /\ fs' = IF inode # RootInodeID THEN forgetBufferNode(fs, inode) ELSE fs
    /\ kern' = [kern EXCEPT !.refs = @ \ {inode}]
    /\ UNCHANGED <<mgr, worker, hist, sparseVars, linearVars, mountVars>>

\* adjustLen(ioBuf, ioOffset, availSize): the length of the slice returned, ioBuf
\* or ioBuf[:n]. A negative n makes the slice expression panic.
adjustLen(len, ioOffset, availSize) ==
    LET n == availSize - ioOffset IN IF n < len THEN n ELSE len

\* The locked part of ReadFile, WriteFile and ReleaseFileHandle, from fs.lock.Lock()
\* to fs.lock.Unlock(): b, found := fs.nodes[inode]. The handler then replies ENOENT,
\* or goes on to call the capability of its copy b with the lock released.
\* b, found := fs.nodes[inode] under the lock, and the reply when it is not found.
FindBuffer(f, inode) ==
    IF inode \in DOMAIN f.nodes THEN [found |-> TRUE, err |-> "nil"]
    ELSE [found |-> FALSE, err |-> "ENOENT"]

LockedLookup(w, op, inode, offset, len) ==
    /\ Alive /\ Unlocked
    /\ worker[w].pc = "idle"
    /\ worker' = [worker EXCEPT ![w] =
           IF FindBuffer(fs, inode).found
           THEN [pc |-> "call", op |-> op, inode |-> inode, buf |-> fs.nodes[inode],
                 arg |-> adjustLen(len, offset, fs.nodes[inode].size)]
           ELSE IdleWorker]

\* ReadFile that gives the lock up only when it returns.
ReadFileKeepLock(w, inode, offset, len) ==
    /\ kern.handles[inode] > 0
    /\ LockedLookup(w, "ReadFile", inode, offset, len)
    /\ fs' = IF inode \in DOMAIN fs.nodes THEN [fs EXCEPT !.lock = w] ELSE fs
    /\ UNCHANGED <<mgr, kern, hist, sparseVars, linearVars, mountVars>>

\* The kernel reads and writes through a handle it has open.
ReadFile(w, inode, offset, len) ==
    /\ kern.handles[inode] > 0
    /\ LockedLookup(w, "ReadFile", inode, offset, len)
    /\ UNCHANGED <<fs, mgr, kern, hist, sparseVars, linearVars, mountVars>>

WriteFile(w, inode, offset, len) ==
    /\ kern.handles[inode] > 0
    /\ LockedLookup(w, "WriteFile", inode, offset, len)
    /\ UNCHANGED <<fs, mgr, kern, hist, sparseVars, linearVars, mountVars>>

\* The kernel releases one of the handles it has open on the inode.
ReleaseFileHandle(w, handle) ==
    /\ kern.handles[handle] > 0
    /\ LockedLookup(w, "ReleaseFileHandle", handle, 0, 0)
    /\ kern' = [kern EXCEPT !.handles[handle] = @ - 1]
    /\ UNCHANGED <<fs, mgr, hist, sparseVars, linearVars, mountVars>>

\* What the handler replies once the capability it called has returned; the
\* errors of the buffer's own ReadAt, WriteAt and Close are left out.
Reply(wk) ==
    IF wk.op = "WriteFile" /\ wk.buf.writeAt = "noWriteAt" THEN "ENOSYS" ELSE "nil"

\* The handler slices its io buffer with adjustLen (a negative length panics),
\* calls the capability of b, and the capability returns: b.readAt, after waiting
\* for its data for as long as the producer takes, b.writeAt, or b.close.
WorkerCall(w) ==
    /\ Alive
    /\ worker[w].pc = "call"
    /\ IF worker[w].arg < 0
       THEN /\ fs' = [fs EXCEPT !.panic = TRUE]
            /\ worker' = [worker EXCEPT ![w].pc = "panic"]
            /\ UNCHANGED hist
       ELSE /\ worker' = [worker EXCEPT ![w] = IdleWorker]
            /\ hist' = IF worker[w].op = "ReleaseFileHandle"
                       THEN CloseCalled(hist, worker[w].inode)
                       ELSE hist
            /\ UNCHANGED fs
    /\ UNCHANGED <<mgr, kern, sparseVars, linearVars, mountVars>>

InodeIDs == (RootInodeID + 1)..(RootInodeID + MaxBuffers)

BufferSizes == {pagesize + 1}

\* Offsets and data lengths of the writes the kernel sends: within the file, at its
\* end, past its end.
WriteOffsets == {0, pagesize + 1, pagesize + 2}
DataLens == {0, 1}

FsStart ==
    /\ fs = newFileSystem
    /\ mgr = [c \in Callers |-> IdleCaller]
    /\ worker = [w \in Workers |-> IdleWorker]
    /\ kern = [refs |-> {}, handles |-> [i \in InodeIDs |-> 0]]
    /\ hist = [registered |-> <<>>, kinds |-> <<>>, closed |-> <<>>, created |-> {}]

(***************************************************************************)
(* Manager: New, Shutdown, cleanup                                         *)
(***************************************************************************)
Managers == {"m1", "m2"}

\* Mountpoint paths; a path is used by one Manager at most.
Mountpoints == {"a", "b"}

Absent == [kind |-> "absent", entries |-> 0, mounted |-> FALSE]
EmptyDir == [kind |-> "dir", entries |-> 0, mounted |-> FALSE]

\* What New may find at the path: nothing, a directory (empty or not), a file, a
\* dangling symbolic link.
PathStates ==
    {Absent, EmptyDir, [EmptyDir EXCEPT !.entries = 1],
     [Absent EXCEPT !.kind = "file"], [Absent EXCEPT !.kind = "link"]}

\* os.MkdirAll(path, 0700): nil when the path is a directory already or is created
\* now, ENOTDIR on a file, EEXIST on a name that is there without being a directory.
MkdirAll(d) ==
    IF d.kind = "absent" THEN [dir |-> EmptyDir, err |-> "nil"]
    ELSE IF d.kind = "dir" THEN [dir |-> d, err |-> "nil"]
    ELSE IF d.kind = "file" THEN [dir |-> d, err |-> "ENOTDIR"]
    ELSE [dir |-> d, err |-> "EEXIST"]

IsExist(err) == err = "EEXIST"

\* os.Remove(path): removes a file, a link or an empty directory nothing is mounted on.
Remove(d) ==
    IF d.kind = "absent" THEN [dir |-> d, err |-> "ENOENT"]
    ELSE IF d.mounted THEN [dir |-> d, err |-> "EBUSY"]
    ELSE IF d.kind = "dir" /\ d.entries > 0 THEN [dir |-> d, err |-> "ENOTEMPTY"]
    ELSE [dir |-> Absent, err |-> "nil"]

\* Manager.cleanup
cleanup(m, d) == IF m.rmdir THEN Remove(d) ELSE [dir |-> d, err |-> "nil"]

NoManager == [pc |-> "none", Mountpoint |-> "", rmdir |-> FALSE, err |-> "nil",
              existed |-> FALSE]  \* history: the path was a directory before New

InUse(path) == \E m \in Managers : manager[m].pc # "none" /\ manager[m].Mountpoint = path

\* New, lines 35-54: the Mountpoint is settled and os.MkdirAll is called.
NewMkdir(m, path) ==
    /\ manager[m].pc = "none"
    /\ ~InUse(path)
    /\ LET made == MkdirAll(dirs[path])
           this == [NoManager EXCEPT !.Mountpoint = path,
                                     !.existed = dirs[path].kind = "dir"]
       IN  /\ dirs' = [dirs EXCEPT ![path] = made.dir]
           /\ manager' = [manager EXCEPT ![m] =
                  IF made.err = "nil" THEN [this EXCEPT !.pc = "mkdir", !.rmdir = TRUE]
                  ELSE IF ~IsExist(made.err)
                  THEN [this EXCEPT !.pc = "failed", !.err = made.err]
                  ELSE [this EXCEPT !.pc = "mkdir"]]
    /\ UNCHANGED <<sparseVars, linearVars, fsVars>>

\* New, lines 56-71: fuse.Mount succeeds (ok, on a directory) or fails, and on
\* failure cleanup runs.
NewMount(m, ok) ==
    /\ manager[m].pc = "mkdir"
    /\ LET path == manager[m].Mountpoint
           undo == cleanup(manager[m], dirs[path])
       IN  IF ok /\ dirs[path].kind = "dir"
           THEN /\ dirs' = [dirs EXCEPT ![path].mounted = TRUE]
                /\ manager' = [manager EXCEPT ![m].pc = "mounted"]
           ELSE /\ dirs' = [dirs EXCEPT ![path] = undo.dir]
                /\ manager' = [manager EXCEPT ![m].pc = "failed", ![m].err = "mount"]
    /\ UNCHANGED <<sparseVars, linearVars, fsVars>>

\* Shutdown, lines 76-80: fuse.Unmount, which may fail, and mount.Join.
ShutdownUnmount(m, ok) ==
    /\ manager[m].pc = "mounted"
    /\ dirs' = [dirs EXCEPT ![manager[m].Mountpoint].mounted = ~ok]
    /\ manager' = [manager EXCEPT ![m].pc = "joined",
                                  ![m].err = IF ok THEN "nil" ELSE "unmount"]
    /\ UNCHANGED <<sparseVars, linearVars, fsVars>>

\* Shutdown, lines 82-85: cleanup; the first error is the one returned.
ShutdownCleanup(m) ==
    /\ manager[m].pc = "joined"
    /\ LET path == manager[m].Mountpoint
           undo == cleanup(manager[m], dirs[path])
       IN  /\ dirs' = [dirs EXCEPT ![path] = undo.dir]
           /\ manager' = [manager EXCEPT ![m].pc = "closed",
                                         ![m].err = IF @ = "nil" THEN undo.err ELSE @]
    /\ UNCHANGED <<sparseVars, linearVars, fsVars>>

\* Somebody else puts a file into the directory under the mountpoint, or takes
\* it out.
OtherFile(path) ==
    /\ dirs[path].kind = "dir"
    /\ ~dirs[path].mounted
    /\ dirs' = [dirs EXCEPT ![path].entries = 1 - @]
    /\ UNCHANGED <<manager, sparseVars, linearVars, fsVars>>

MountStart(d) ==
    /\ manager = [m \in Managers |-> NoManager]
    /\ dirs = d

NothingThere == [p \in Mountpoints |-> Absent]

(***************************************************************************)
(* Specifications                                                          *)
(***************************************************************************)
SparseInit == SparseStart /\ LinearStart(LinearLen) /\ FsStart /\ MountStart(NothingThere)

SparseNext ==
    \/ \E r \in SReaders, offset \in 0..(SparseSize - 1) :
          \E length \in 0..(SparseSize - offset) : ReadAt(r, offset, length)
    \/ \E r \in SReaders : ReadAtWake(r)
    \/ \E r \in SReaders : ReadAtReturn(r)
    \/ \E offset \in 0..(SparseSize - 1) :
          \E len \in 1..Min(MaxFrameLen, SparseSize - offset) : ProduceFrame(offset, len)
    \/ ProductionFinished

SparseSpec == SparseInit /\ [][SparseNext]_vars

SparseFairSpec == SparseSpec /\ \A r \in SReaders : WF_vars(ReadAtWake(r))

LinearInit ==
    /\ LinearStart(LinearLen)
    /\ SparseStart
    /\ FsStart
    /\ MountStart(NothingThere)

LinearNext ==
    \/ \E r \in LReaders, offset \in ReadOffsets, length \in ReadLengths :
          LinearReadAt(r, offset, length)
    \/ \E r \in LReaders : LinearReadAtWake(r)
    \/ \E r \in LReaders : LinearReadAtReturn(r)
    \/ \E index \in BlockIndexes : BlockPopulated(index)
    \/ \E index \in BlockIndexes, count \in BlockCounts : BlocksPopulated(index, count)
    \/ PopulationFinished
    \/ LinearBroadcast

LinearSpec == LinearInit /\ [][LinearNext]_vars

LinearFairSpec ==
    /\ LinearSpec
    /\ WF_vars(LinearBroadcast)
    /\ \A r \in LReaders : WF_vars(LinearReadAtWake(r))

\* WriteFile on the inode of a shared buffer registered with size len(b.linear):
\* b.writeAt(adjustLen(op.Data, op.Offset, b.size), op.Offset) with b.writeAt the
\* WriteAt of the linear buffer.
SharedWriteFile(offset, len) ==
    IF adjustLen(len, offset, linear.len) < 0
    THEN /\ lproducer # "panic"
         /\ lproducer' = "panic"
         /\ UNCHANGED <<linear, lreader, storage, sparseVars, fsVars, mountVars>>
    ELSE WriteAt(offset, adjustLen(len, offset, linear.len))

\* Offsets and lengths of the writes issued: in both blocks, up to the end of the
\* storage, across it and past it.
TargetOffsets == {0, BlockSize - 1, LinearLen - 1, LinearLen, LinearLen + 1}
SourceLens == {0, 1, 2}

\* The thread reading while the writes go on.
WriteReaders == {"r1"}

WriteInit == LinearInit

WriteNext ==
    \/ \E offset \in TargetOffsets, len \in SourceLens : WriteAt(offset, len)
    \/ \E offset \in TargetOffsets, len \in SourceLens : SharedWriteFile(offset, len)
    \/ LinearClose
    \/ \E r \in WriteReaders, offset \in {0, 1} : LinearReadAt(r, offset, BlockSize)
    \/ \E r \in WriteReaders : LinearReadAtWake(r)
    \/ \E r \in WriteReaders : LinearReadAtReturn(r)
    \/ \E index \in 0..(LinearBlocks - 1) : BlockPopulated(index)
    \/ PopulationFinished
    \/ LinearBroadcast

WriteSpec == WriteInit /\ [][WriteNext]_vars

\* Both kinds of buffer in one process, one thread reading each: reads of zero
\* length and of one unit, frames and blocks arriving in any order.
ZeroReaders == {"r1"}

ZeroInit == SparseInit

ZeroNext ==
    \/ \E r \in ZeroReaders, offset \in 0..(SparseSize - 1), length \in {0, 1} :
          ReadAt(r, offset, length)
    \/ \E r \in ZeroReaders : ReadAtWake(r)
    \/ \E r \in ZeroReaders : ReadAtReturn(r)
    \/ \E offset \in 0..(SparseSize - 1) :
          \E len \in 1..Min(MaxFrameLen, SparseSize - offset) : ProduceFrame(offset, len)
    \/ ProductionFinished
    \/ \E r \in ZeroReaders, offset \in ReadOffsets \cup {LinearLen}, length \in {0, BlockSize} :
          LinearReadAt(r, offset, length)
    \/ \E r \in ZeroReaders : LinearReadAtWake(r)
    \/ \E r \in ZeroReaders : LinearReadAtReturn(r)
    \/ \E index \in 0..(LinearBlocks - 1) : BlockPopulated(index)
    \/ PopulationFinished
    \/ LinearBroadcast

ZeroSpec == ZeroInit /\ [][ZeroNext]_vars

FsInit == FsStart /\ SparseStart /\ LinearStart(LinearLen) /\ MountStart(NothingThere)

FsNext ==
    \/ \E c \in Callers, kind \in Kinds, size \in BufferSizes, r \in RandValues :
          Create(c, kind, size, r)
    \/ \E c \in Callers : OpenFails(c)
    \/ \E c \in Callers : OpenLookUp(c)
    \/ \E c \in Callers : OpenOpenFile(c)
    \/ \E c \in Callers : CreateForgetName(c)
    \/ \E c \in Callers : CreateForgetNode(c)
    \/ \E c \in Callers : CreateClose(c)
    \/ \E inode \in InodeIDs : KernelOpenFile(inode)
    \/ \E inode \in {RootInodeID} \cup InodeIDs : ForgetInode(inode)
    \/ \E w \in Workers, inode \in InodeIDs, offset \in WriteOffsets, len \in DataLens :
          ReadFile(w, inode, offset, len)
    \/ \E w \in Workers, inode \in InodeIDs, offset \in WriteOffsets, len \in DataLens :
          WriteFile(w, inode, offset, len)
    \/ \E w \in Workers, inode \in InodeIDs : ReleaseFileHandle(w, inode)
    \/ \E w \in Workers : WorkerCall(w)

FsSpec == FsInit /\ [][FsNext]_vars

MountInit ==
    /\ \E d \in [Mountpoints -> PathStates] : MountStart(d)
    /\ SparseStart
    /\ LinearStart(LinearLen)
    /\ FsStart

MountNext ==
    \/ \E m \in Managers, path \in Mountpoints : NewMkdir(m, path)
    \/ \E m \in Managers, ok \in BOOLEAN : NewMount(m, ok)
    \/ \E m \in Managers, ok \in BOOLEAN : ShutdownUnmount(m, ok)
    \/ \E m \in Managers : ShutdownCleanup(m)
    \/ \E path \in Mountpoints : OtherFile(path)

MountSpec == MountInit /\ [][MountNext]_vars

(***************************************************************************)
(* Sparse buffer: properties                                               *)
(***************************************************************************)

FrameEnd(f) == f.offset + Len(f.data)

InCall(r) == sreader[r].pc # "idle"

\* C1: in every reachable state the frame list is strictly sorted by offset and
\* the frames' byte ranges are pairwise non-overlapping, also after a ReadAt that
\* takes bytes out of the middle of a frame.
C1_FramesSortedDisjoint ==
    \A i \in 1..(Len(sparse.frames) - 1) :
        /\ sparse.frames[i].offset < sparse.frames[i + 1].offset
        /\ FrameEnd(sparse.frames[i]) <= sparse.frames[i + 1].offset

\* C2: each produced byte is delivered to at most one ReadAt: no byte is copied
\* out twice, a delivered byte is no longer in any frame, and a ReadAt that
\* starts at an offset already delivered to someone else gets nothing: it is
\* blocked while finish is false and returns 0 bytes with EOF once finish is true.
C2_AtMostOnce ==
    /\ \A o \in DOMAIN delivered : delivered[o] <= 1
    /\ \A o \in FrameOffsets(sparse.frames) : delivered[o] = 0
    /\ \A r \in SReaders :
          (InCall(r) /\ sreader[r].len0 > 0 /\ sreader[r].out = <<>>
              /\ delivered[sreader[r].offset0] > 0)
          => \/ sreader[r].pc \in {"waiting", "woken"} /\ sreader[r].blocked
             \/ sreader[r].pc = "done" /\ sreader[r].err = "EOF" /\ sparse.finish

\* A ReadAt of a byte that an earlier ReadAt was given has returned 0, EOF.
C2_Witness ==
    \E r \in SReaders :
        /\ sreader[r].pc = "done" /\ sreader[r].err = "EOF" /\ sreader[r].out = <<>>
        /\ sreader[r].len0 > 0 /\ delivered[sreader[r].offset0] = 1

\* r runs a pass of the ReadAt loop in this step (the call, or a retry after Wait).
PassStep(r) ==
    \/ sreader[r].pc = "idle" /\ sreader'[r].pc # "idle"
    \/ sreader[r].pc = "woken" /\ sreader'[r].pc # "woken"

\* The offset the pass starts looking at, and what the call had copied before it.
PassOffset(r) == IF sreader[r].pc = "idle" THEN sreader'[r].offset0 ELSE sreader[r].offset
PassWants(r) == IF sreader[r].pc = "idle" THEN sreader'[r].len0 ELSE sreader[r].remain
PassCopied(r) == IF sreader[r].pc = "idle" THEN 0 ELSE Len(sreader[r].out)

C9_ReturnsEOF ==
    \A r \in SReaders :
        (/\ PassStep(r)
         /\ sparse.finish
         /\ PassWants(r) > 0
         /\ PassCopied(r) = 0
         /\ PassOffset(r) \notin FrameOffsets(sparse.frames))
        => /\ sreader'[r].pc = "done"
           /\ sreader'[r].out = <<>>
           /\ sreader'[r].err = "EOF"

\* C9: once ProductionFinished has been called, a ReadAt (issued afterwards, or
\* woken out of its wait) at an offset no remaining frame covers returns 0 bytes
\* with EOF, ProductionFinished leaves no reader in cond.Wait, and every reader
\* that was blocked gets to return.
C9_FinishedReleasesReaders ==
    /\ [][C9_ReturnsEOF]_vars
    /\ [](sparse.finish => \A r \in SReaders : sreader[r].pc # "waiting")
    /\ (sparse.finish ~> \A r \in SReaders : sreader[r].pc \notin {"waiting", "woken"})

\* A read that was blocked at an offset nobody produced has returned 0, EOF
\* after ProductionFinished, with frames produced elsewhere.
C9_Witness ==
    \E r \in SReaders :
        /\ sparse.finish /\ produced # {}
        /\ sreader[r].pc = "done" /\ sreader[r].blocked
        /\ sreader[r].err = "EOF" /\ sreader[r].out = <<>>
        /\ sreader[r].offset0 \notin produced

C10_Step ==
    \A r \in SReaders :
        (/\ sreader[r].pc = "idle" /\ sreader'[r].pc # "idle"
         /\ sreader'[r].offset0 = 0
         /\ Partitioned(sreader'[r].len0))
        => /\ sreader'[r].pc = "done"
           /\ sreader'[r].err = "nil"
           /\ sreader'[r].out = FrameData(0, sreader'[r].len0)
           /\ sparse'.frames = <<>>

\* C10: after frames partitioning [0, S) were produced in any order, one ReadAt
\* of length S at offset 0 returns the S bytes in offset order and leaves the
\* frame list empty.
C10_RoundTrip == [][C10_Step]_vars

\* Such a read has returned, having found several frames in the list.
C10_Witness ==
    \E r \in SReaders :
        /\ sreader[r].pc = "done" /\ sreader[r].offset0 = 0
        /\ sreader[r].len0 = SparseSize /\ sreader[r].seen >= 2
        /\ sreader[r].out = FrameData(0, SparseSize)
        /\ produced = 0..(SparseSize - 1)
        /\ sparse.frames = <<>>

\* C16: a sparse ReadAt that has copied k > 0 bytes and then finds no frame
\* covering the next offset while finish is true returns k with a nil error;
\* EOF is returned only by a read that copied nothing.
C16_EOFOnlyWhenNothingCopied ==
    \A r \in SReaders :
        (sreader[r].pc = "done" /\ Len(sreader[r].out) > 0) => sreader[r].err = "nil"

\* A pass of r that starts at an offset no frame covers, before finish: the read
\* goes into cond.Wait with nothing more copied.
C17_Waits ==
    \A r \in SReaders :
        (/\ PassStep(r)
         /\ ~sparse.finish
         /\ PassWants(r) > 0
         /\ PassOffset(r) \notin FrameOffsets(sparse.frames))
        => /\ sreader'[r].pc = "waiting"
           /\ Len(sreader'[r].out) = PassCopied(r)

\* A read that waited at an offset no frame covered is retried with a frame
\* covering that offset in the list: it copies the byte the producer put there.
C17_Supplied ==
    \A r \in SReaders :
        (/\ sreader[r].pc = "woken" /\ sreader[r].absent
         /\ PassStep(r)
         /\ PassOffset(r) \in FrameOffsets(sparse.frames))
        => /\ Len(sreader'[r].out) > PassCopied(r)
           /\ sreader'[r].out[PassCopied(r) + 1] = ByteAt(PassOffset(r))

\* C17: a ReadAt at an offset no frame covers yet, before finish, goes into its
\* wait and does not return until ProduceFrame supplies a frame covering that
\* offset; retried with that frame in the list, it copies the byte the producer
\* put at that offset, whenever the frames arrive relative to the reads.
C17_DelayedFrames == [][C17_Waits /\ C17_Supplied]_vars

\* How many times the frame list holds byte b at absolute offset o.
PairCount(fr, o, b) ==
    Cardinality({ik \in {<<i, k>> : i \in 1..Len(fr), k \in 1..MaxFrameLen} :
                    /\ ik[2] <= Len(fr[ik[1]].data)
                    /\ fr[ik[1]].offset + ik[2] - 1 = o
                    /\ fr[ik[1]].data[ik[2]] = b})

\* The bytes the frames may hold.
SparseBytes == {ByteAt(o) : o \in 0..(SparseSize - 1)}

\* What the pass of r copied out in this step: the offsets and, per offset, the byte.
PassGained(r) == Len(sreader'[r].out) - PassCopied(r)
PassRange(r) == Range(PassOffset(r), PassGained(r))
PassByte(r, o) == sreader'[r].out[PassCopied(r) + (o - PassOffset(r)) + 1]

C26_Step ==
    \A r \in SReaders :
        PassStep(r) =>
            /\ \A o \in 0..(SparseSize - 1), b \in SparseBytes :
                  PairCount(sparse'.frames, o, b) =
                      PairCount(sparse.frames, o, b)
                          - (IF o \in PassRange(r) /\ b = PassByte(r, o) THEN 1 ELSE 0)
            /\ \A i \in 1..Len(sparse.frames) :
                  Range(sparse.frames[i].offset, Len(sparse.frames[i].data))
                          \cap PassRange(r) = {}
                  => \E j \in 1..Len(sparse'.frames) : sparse'.frames[j] = sparse.frames[i]

\* C26: a sparse read removes exactly the bytes it returns: whether it takes a
\* whole frame, a prefix, a suffix or the middle of one, the multiset of
\* (absolute offset, byte) pairs in the frame list after the read is the one
\* before it minus the returned range, each remaining byte keeps its offset, and
\* the frames the read did not touch are unchanged.
C26_RemovesWhatItReturns == [][C26_Step]_vars

\* A read has taken the middle byte of a three-byte frame and left its first
\* and last byte in two frames.
C26_Witness ==
    \E r \in SReaders :
        /\ sreader[r].pc = "done" /\ sreader[r].offset0 = 1
        /\ sreader[r].out = <<ByteAt(1)>>
        /\ Len(sparse.frames) = 2
        /\ \E i, j \in 1..2 :
              /\ sparse.frames[i] = [offset |-> 0, data |-> <<ByteAt(0)>>]
              /\ sparse.frames[j] = [offset |-> 2, data |-> <<ByteAt(2)>>]

\* What the loop of a ReadAt of one byte at offset o would do in this state.
ReadOne(o) ==
    ReadLoop([frames |-> sparse.frames, offset |-> o, remain |-> 1, out |-> <<>>,
              nodata |-> FALSE])

\* C28: in every reachable state each byte that ProduceFrame supplied and no
\* ReadAt has returned yet is found by the frame lookup: a ReadAt of length 1
\* at its offset returns it without waiting and without EOF, also after reads
\* that took bytes out of the middle of a frame.
C28_ProducedBytesAvailable ==
    \A o \in produced :
        delivered[o] = 0 =>
            /\ getDataIndex(sparse.frames, o) # -1
            /\ ~ReadOne(o).nodata
            /\ ReadOne(o).out = <<ByteAt(o)>>

(***************************************************************************)
(* Linear buffer: properties                                               *)
(***************************************************************************)

\* r runs a pass of waitForBlocks in this step (the call, or a retry after Wait).
LinearPassStep(r) ==
    \/ lreader[r].pc = "idle" /\ lreader'[r].pc # "idle"
    \/ lreader[r].pc = "woken" /\ lreader'[r].pc # "woken"

\* The blocks that hold a byte of [offset, offset + n), for n > 0.
BlocksHolding(offset, n) == (offset \div BlockSize)..((offset + n - 1) \div BlockSize)

\* The block range a read of [offset, offset + length) requires:
\* [ceil(offset / BLOCK), ceil((offset + length) / BLOCK)).
RequiredBlocks(offset, length) ==
    {k \in 0..(WordBits * wordLen(linear.len)) :
        /\ k * BlockSize >= offset
        /\ k * BlockSize < offset + length}

C3_Step ==
    \A r \in LReaders :
        (LinearPassStep(r) /\ lreader'[r].pc = "done" /\ lreader'[r].n > 0)
        => BlocksHolding(lreader'[r].offset, lreader'[r].n) \subseteq linear.bitmap

\* C3: whenever a linear ReadAt returns n > 0 bytes, every block that holds a
\* byte of [offset, offset + n), the one holding an unaligned offset included,
\* had its bit set when the read checked the bitmap under the lock.
C3_ReadSawItsBlocks == [][C3_Step]_vars

C8_Step ==
    \A r \in LReaders :
        (LinearPassStep(r) /\ linear.finish)
        => /\ lreader'[r].pc = "done"
           /\ IF RequiredBlocks(lreader'[r].offset, lreader'[r].length) \subseteq linear.bitmap
              THEN /\ lreader'[r].err = "nil"
                   /\ lreader'[r].n = Min(lreader'[r].length, linear.len - lreader'[r].offset)
              ELSE /\ lreader'[r].err = "EOF"
                   /\ lreader'[r].n = 0

\* C8: once PopulationFinished has been called, a ReadAt (issued afterwards, or
\* woken out of its wait) whose required block range has a clear bit returns 0
\* bytes with EOF and one whose required bits are all set returns its data; once
\* the producer has broadcast no reader is left in cond.Wait, and every reader
\* that was blocked gets to return, as long as no panic ends the process.
C8_FinishedReleasesReaders ==
    /\ [][C8_Step]_vars
    /\ []((linear.finish /\ lproducer = "idle")
            => \A r \in LReaders : lreader[r].pc # "waiting")
    /\ (linear.finish ~> \/ \A r \in LReaders : lreader[r].pc \notin {"waiting", "woken"}
                          \/ lproducer = "panic")

\* Mid-population (some bits set, not all), a read that was blocked has returned
\* 0, EOF after PopulationFinished.
C8_Witness ==
    \E r \in LReaders :
        /\ linear.finish /\ linear.bitmap # {}
        /\ lreader[r].pc = "done" /\ lreader[r].blocked
        /\ lreader[r].err = "EOF" /\ lreader[r].n = 0

\* The block indexes of a storage of len bytes: [0, ceil(len / BLOCK)).
BlockRange(len) == 0..(bitLen(len) - 1)

C11_Step ==
    \A r \in LReaders :
        (/\ lreader[r].pc = "idle" /\ lreader'[r].pc # "idle"
         /\ lreader'[r].offset = 0
         /\ lreader'[r].length = linear.len
         /\ BlockRange(linear.len) \subseteq linear.bitmap)
        => /\ lreader'[r].pc = "done"
           /\ ~lreader'[r].blocked
           /\ lreader'[r].err = "nil"
           /\ lreader'[r].n = linear.len

\* C11: once every block index in [0, ceil(N / BLOCK)) has its bit set, a ReadAt
\* of length N at offset 0 returns at once, without waiting, with n = N and no
\* error (n bytes copied from the start of the storage), whether or not
\* PopulationFinished was called.
C11_FullReadAfterAllBlocks == [][C11_Step]_vars

\* Such a read has returned while the buffer was not finished.
C11_Witness ==
    \E r \in LReaders :
        /\ lreader[r].pc = "done" /\ ~lreader[r].blocked
        /\ lreader[r].offset = 0 /\ lreader[r].length = linear.len
        /\ lreader[r].n = linear.len /\ linear.len > BlockSize
        /\ BlockRange(linear.len) \subseteq linear.bitmap
        /\ ~linear.finish

C14_Step ==
    \A i \in BlockIndexes :
        BlockPopulated(i) =>
            IF i \in BlockRange(linear.len)
            THEN /\ lproducer' # "panic"
                 /\ linear'.bitmap = linear.bitmap \cup {i}
                 /\ linear'.finish = linear.finish
            ELSE /\ lproducer' = "panic"
                 /\ linear' = linear

\* C14: BlockPopulated(i) with i outside [0, ceil(N / BLOCK)) panics and sets no
\* bit; with i inside it sets bit i and leaves every other bit and the finish
\* flag as they were.
C14_BlockPopulatedRange == [][C14_Step]_vars

C15_Step ==
    \A i \in BlockIndexes, count \in BlockCounts :
        BlocksPopulated(i, count) =>
            IF count < 0 \/ i < 0 \/ i + count > bitLen(linear.len)
            THEN /\ lproducer' = "panic"
                 /\ linear' = linear
            ELSE /\ lproducer' # "panic"
                 /\ linear'.bitmap = linear.bitmap \cup (i..(i + count - 1))
                 /\ linear'.finish = linear.finish

\* C15: BlocksPopulated(start, count) panics and changes no bit when count is
\* negative or start + count exceeds the number of blocks ceil(N / BLOCK);
\* otherwise it sets the bits [start, start + count) and no others.
C15_BlocksPopulatedRange == [][C15_Step]_vars

C20_Step ==
    linear.finish => /\ linear'.finish
                     /\ linear'.bitmap = linear.bitmap

\* C20: the finish flag of the linear buffer is never cleared once set, and
\* once PopulationFinished has set it the bitmap does not change again: no
\* later BlockPopulated or BlocksPopulated sets a bit.
C20_FinishedFreezesBitmap == [][C20_Step]_vars

\* The offsets a write of length bytes at offset puts bytes at.
WrittenRange(offset, length) ==
    offset..(offset + Min(length, linear.len - offset) - 1)

\* What a write of the storage range leaves behind: the source bytes in the
\* range, every other byte, the bitmap, the flag, the closed signal, the readers
\* and the producer as they were.
WriteEffect(offset, length) ==
    /\ \A o \in WrittenRange(offset, length) :
          ByteOf(storage', o) = SourceByte(o - offset)
    /\ \A o \in (DOMAIN storage.written \cup DOMAIN storage'.written)
                  \ WrittenRange(offset, length) :
          ByteOf(storage', o) = ByteOf(storage, o)
    /\ \A o \in DOMAIN storage'.written : o >= 0 /\ o < linear.len
    /\ storage'.closed = storage.closed
    /\ linear' = linear
    /\ lreader' = lreader
    /\ lproducer' = lproducer

C21_Step ==
    \A offset \in TargetOffsets, len \in SourceLens :
        /\ (WriteAt(offset, len) /\ offset <= linear.len) => WriteEffect(offset, len)
        /\ (SharedWriteFile(offset, len) /\ offset <= linear.len)
              => WriteEffect(offset, len)

\* A write is never made to wait, whatever the bitmap, the flag and the readers
\* are doing.
C21_NeverBlocks ==
    lproducer # "panic" =>
        \A offset \in TargetOffsets, len \in SourceLens :
            ENABLED WriteAt(offset, len) /\ ENABLED SharedWriteFile(offset, len)

\* C21: WriteAt(src, offset) on the linear buffer copies src into the storage
\* from offset on and returns without blocking, also when the blocks it writes
\* to are absent and finish is false; the bitmap, finish, the closed signal and
\* every byte outside the written range stay as they were and no waiter is
\* woken. A WriteFile on a shared buffer puts the same bytes into the storage.
C21_WriteAtCopies == [][C21_Step]_vars /\ []C21_NeverBlocks

\* Bytes were written across the block boundary while no block was populated,
\* finish was false, and a reader was waiting for both blocks.
C21_Witness ==
    /\ linear.bitmap = {} /\ ~linear.finish
    /\ ByteOf(storage, BlockSize - 1) = SourceByte(0)
    /\ ByteOf(storage, BlockSize) = SourceByte(1)
    /\ \E r \in LReaders : lreader[r].pc = "waiting" /\ lreader[r].length = BlockSize

\* r calls ReadAt with an empty dest on the sparse buffer, and with an empty
\* target on the linear buffer.
SparseZeroRead(r) ==
    sreader[r].pc = "idle" /\ sreader'[r].pc # "idle" /\ sreader'[r].len0 = 0

LinearZeroRead(r) ==
    lreader[r].pc = "idle" /\ lreader'[r].pc # "idle" /\ lreader'[r].length = 0

C22_Step ==
    \A r \in ZeroReaders :
        /\ SparseZeroRead(r)
              => /\ sreader'[r].pc = "done"
                 /\ sreader'[r].out = <<>> /\ sreader'[r].err = "nil"
                 /\ ~sreader'[r].blocked
                 /\ sparse' = sparse
        /\ LinearZeroRead(r)
              => /\ lreader'[r].pc = "done"
                 /\ lreader'[r].n = 0 /\ lreader'[r].err = "nil"
                 /\ ~lreader'[r].blocked
                 /\ linear' = linear

\* An idle thread can make the zero-length read in every state of the buffers.
C22_NeverBlocks ==
    \A r \in ZeroReaders :
        /\ sreader[r].pc = "idle"
              => \A offset \in 0..(SparseSize - 1) : ENABLED ReadAt(r, offset, 0)
        /\ lreader[r].pc = "idle"
              => \A offset \in ReadOffsets \cup {LinearLen} :
                     ENABLED LinearReadAt(r, offset, 0)

\* C22: a read of zero length returns 0 bytes with no error and without
\* blocking, on the linear buffer and on the sparse buffer, whatever the state:
\* no block populated, no frame produced, finish false or true.
C22_ZeroLengthRead == [][C22_Step]_vars /\ []C22_NeverBlocks

\* Zero-length reads have returned on a finished sparse buffer without frames
\* and on an unfinished linear buffer without blocks.
C22_Witness ==
    \E r \in ZeroReaders :
        /\ sparse.frames = <<>> /\ sparse.finish
        /\ sreader[r].pc = "done" /\ sreader[r].len0 = 0 /\ sreader[r].err = "nil"
        /\ linear.bitmap = {} /\ ~linear.finish
        /\ lreader[r].pc = "done" /\ lreader[r].length = 0 /\ lreader[r].err = "nil"
        /\ lreader[r].offset = 0

C24_Step ==
    \A r \in LReaders :
        LinearPassStep(r) =>
            IF RequiredBlocks(lreader'[r].offset, lreader'[r].length) \subseteq linear.bitmap
            THEN lreader'[r].pc = "done" /\ lreader'[r].err = "nil"
            ELSE IF linear.finish
            THEN lreader'[r].pc = "done" /\ lreader'[r].err = "EOF"
            ELSE lreader'[r].pc = "waiting"

\* C24: a linear ReadAt of [off, off+len) waits for the blocks with index in
\* [ceil(off/BLOCK), ceil((off+len)/BLOCK)) and no other: it returns as soon as
\* those bits are set, whatever the bit of the block that contains an unaligned
\* off, and while finish is false it stays blocked as long as one of them is
\* clear.
C24_WaitsForCeilingRange == [][C24_Step]_vars

\* An unaligned read over the block boundary waited and then returned bytes
\* with the block of its first byte still absent.
C24_Witness ==
    \E r \in LReaders :
        /\ lreader[r].pc = "done" /\ lreader[r].blocked /\ lreader[r].err = "nil"
        /\ lreader[r].offset = 1 /\ lreader[r].length = BlockSize
        /\ lreader[r].n = BlockSize
        /\ 0 \notin linear.bitmap /\ 1 \in linear.bitmap
        /\ ~linear.finish

\* r is in waitForBlocks, in cond.Wait or on its way out of it.
LinearBlocked(r) == lreader[r].pc \in {"waiting", "woken"}

\* The bits r waits for are set, or finish is.
LinearReleased(r) ==
    \/ RequiredBlocks(lreader[r].offset, lreader[r].length) \subseteq linear.bitmap
    \/ linear.finish

\* A pass returns true only on the reader's own range.
C25_OwnRange ==
    \A r \in LReaders :
        (LinearPassStep(r) /\ lreader'[r].pc = "done" /\ lreader'[r].err = "nil")
        => RequiredBlocks(lreader'[r].offset, lreader'[r].length) \subseteq linear.bitmap

\* C25: no wake-up is lost in the linear buffer although the producer methods
\* broadcast after releasing the lock: under fair scheduling every ReadAt blocked
\* in waitForBlocks returns once its required bits are set or finish is set
\* (unless a producer call panics and ends the process), for concurrent readers
\* with different block ranges; a woken reader proceeds only if its own range
\* is satisfied.
C25_NoLostWakeup ==
    /\ [][C25_OwnRange]_vars
    /\ \A r \in LReaders :
          (LinearBlocked(r) /\ LinearReleased(r))
              ~> (~LinearBlocked(r) \/ lproducer = "panic")

\* Two readers waited for different blocks; the one whose block arrived has
\* returned, the other was woken by the same broadcast and waits again.
C25_Witness ==
    \E r1, r2 \in LReaders :
        /\ lreader[r1].pc = "done" /\ lreader[r1].blocked /\ lreader[r1].err = "nil"
        /\ lreader[r1].offset = 0 /\ lreader[r1].length = BlockSize
        /\ lreader[r2].pc = "waiting" /\ lreader[r2].blocked
        /\ lreader[r2].offset = BlockSize /\ lreader[r2].length = 1
        /\ linear.bitmap = {0} /\ ~linear.finish /\ lproducer = "idle"

(***************************************************************************)
(* Filesystem adapter: properties                                          *)
(***************************************************************************)

NamesOf(f, id) == {n \in DOMAIN f.names : f.names[n] = id}

Registered == DOMAIN hist.registered

RealClose(id) == hist.registered[id].close = "Close"

Releasing(id) ==
    \E w \in Workers : /\ worker[w].pc = "call"
                       /\ worker[w].op = "ReleaseFileHandle"
                       /\ worker[w].inode = id

Creating(id) == \E c \in Callers : mgr[c].id = id /\ mgr[c].pc # "done"

\* The kernel has nothing left of the buffer: no handle open, no release in
\* progress, no reference through which to open it again.
LifetimeOver(id) ==
    /\ ~Creating(id)
    /\ kern.handles[id] = 0
    /\ id \notin kern.refs
    /\ ~Releasing(id)

\* C4: a buffer registered by Create or CreateCloned has its Close called at most
\* once, and exactly once when its lifetime is over (the create failed, or the last
\* handle was released), whatever the kernel's order of OpenFile, ReleaseFileHandle
\* and ForgetInode.
C4_ClosedExactlyOnce ==
    \A id \in Registered :
        RealClose(id) =>
            /\ hist.closed[id] <= 1
            /\ LifetimeOver(id) => hist.closed[id] = 1

CreateSucceeds(c) == mgr[c].pc = "forgetName" /\ mgr[c].err = "nil" /\ mgr'[c].pc = "done"

C5_State ==
    \A id \in hist.created :
        /\ NamesOf(fs, id) = {}
        /\ id \in kern.refs =>
              /\ id \in DOMAIN fs.nodes
              /\ fs.nodes[id] = hist.registered[id]
              /\ GetInodeAttributes(fs, id).err = "nil"
              /\ GetInodeAttributes(fs, id).size = hist.registered[id].size

C5_Step ==
    /\ \A c \in Callers :
          CreateSucceeds(c) =>
              /\ mgr[c].name \notin DOMAIN fs'.names
              /\ LookUpInode(fs', RootInodeID, mgr[c].name).err = "ENOENT"
    /\ \A id \in hist.created :
          (id \in DOMAIN fs.nodes /\ id \notin DOMAIN fs'.nodes)
              => (id \in kern.refs /\ id \notin kern'.refs)

\* C5: when a create returns successfully the name it registered is gone from the
\* name map and LookUpInode(ROOT, name) fails with ENOENT; from then on no name leads
\* to the inode, while the inode stays in the node map, served by ReadFile's lookup
\* and GetInodeAttributes, until the step in which the kernel forgets it.
C5_NameGoneNodeKept == [][C5_Step]_vars /\ []C5_State

C5_Witness ==
    \E id \in hist.created :
        /\ id \in DOMAIN fs.nodes
        /\ id \in kern.refs
        /\ \E c \in Callers : mgr[c].pc = "forgetName" /\ mgr[c].id # id

CreateFailed(c) == mgr[c].pc = "done" /\ mgr[c].err # "nil"

FailurePath(c) ==
    /\ mgr[c].pc \in {"forgetName", "forgetNode", "close"}
    /\ mgr[c].err # "nil"
    /\ mgr'[c] # mgr[c]

OthersUnchanged(id) ==
    \A j \in InodeIDs \ {id} :
        /\ (j \in DOMAIN fs.nodes) = (j \in DOMAIN fs'.nodes)
        /\ j \in DOMAIN fs.nodes => fs'.nodes[j] = fs.nodes[j]
        /\ NamesOf(fs', j) = NamesOf(fs, j)
        /\ j \in Registered => hist'.closed[j] = hist.closed[j]

C6_State ==
    \A c \in Callers :
        CreateFailed(c) =>
            /\ mgr[c].id \notin DOMAIN fs.nodes
            /\ NamesOf(fs, mgr[c].id) = {}
            /\ hist.closed[mgr[c].id] >= 1

C6_Step ==
    \A c \in Callers :
        FailurePath(c) =>
            /\ OthersUnchanged(mgr[c].id)
            /\ mgr'[c].pc = "done" =>
                  /\ mgr'[c].err = mgr[c].err
                  /\ mgr[c].buf = hist.registered[mgr[c].id]
                  /\ hist'.closed[mgr[c].id] = Min(hist.closed[mgr[c].id] + 1, MaxCloses)

\* C6: a create whose open failed returns that error with its name out of the name
\* map, its inode out of the node map and its buffer's close capability called, and
\* the steps that do so leave every other buffer's node, name and close count alone.
C6_FailedCreateCleansUp == [][C6_Step]_vars /\ []C6_State

C6_Witness ==
    \E c \in Callers :
        /\ CreateFailed(c)
        /\ \E j \in DOMAIN fs.nodes : j # mgr[c].id /\ NamesOf(fs, j) # {}

InCapability(t) ==
    \/ t \in Workers /\ worker[t].pc = "call"
    \/ t \in Callers /\ mgr[t].pc = "close"

WriteCallStep(w) ==
    /\ worker[w].pc = "call" /\ worker[w].op = "WriteFile"
    /\ worker'[w] # worker[w]

C13_Step ==
    \A w \in Workers :
        WriteCallStep(w) =>
            IF hist.kinds[worker[w].inode] \in {"cloned", "temporal"}
            THEN /\ worker[w].buf.writeAt = "noWriteAt"
                 /\ worker'[w].pc = "idle"
                 /\ Reply(worker[w]) = "ENOSYS"
                 /\ fs' = fs
                 /\ hist' = hist
            ELSE worker[w].buf.writeAt = "WriteAt"

\* C13: a WriteFile on a buffer registered with CreateCloned or CreateTemporal
\* calls noWriteAt, never the buffer, replies ENOSYS for every offset and data
\* and changes nothing in the filesystem; on a buffer registered with Create it
\* calls the buffer's WriteAt.
C13_WriteNotSupported == [][C13_Step]_vars

\* Caller c's registerBuffer returns in this step.
RegisterStep(c) ==
    /\ \E kind \in Kinds, size \in BufferSizes, r \in RandValues : Create(c, kind, size, r)
    /\ Alive'

\* The id is above every id issued before and above ROOT, the name is not in the
\* name map, and both entries appear in this one step.
C18_Step ==
    \A c \in Callers :
        RegisterStep(c) =>
            LET id == mgr'[c].id
                name == mgr'[c].name
            IN  /\ id > RootInodeID
                /\ \A old \in Registered : id > old
                /\ Registered = {} => id = RootInodeID + 1
                /\ id \notin DOMAIN fs.nodes
                /\ name \notin DOMAIN fs.names
                /\ fs'.nodes = MapPut(fs.nodes, id, mgr'[c].buf)
                /\ fs'.names = MapPut(fs.names, name, id)
                /\ Registered' = Registered \cup {id}

\* c is in create with its name still in the name map.
Named(c) == mgr[c].pc \in {"open", "openFile", "forgetName"}

\* Two creates in progress hold different ids, and different names while the
\* names are in the map.
C18_State ==
    \A c1, c2 \in Callers :
        (c1 # c2 /\ Creating(mgr[c1].id) /\ Creating(mgr[c2].id)
            /\ mgr[c1].pc \notin {"idle", "panic"} /\ mgr[c2].pc \notin {"idle", "panic"})
        => /\ mgr[c1].id # mgr[c2].id
           /\ (Named(c1) /\ Named(c2)) => mgr[c1].name # mgr[c2].name

\* C18: in every interleaving of creates and ForgetInode, a registerBuffer that
\* returns gives an id above every id issued before (ROOT+1 first, never ROOT,
\* never an id used before) and a name absent from the name map, and adds both
\* map entries in one step; concurrent creates never share an id or a name.
C18_FreshIdAndName == [][C18_Step]_vars /\ []C18_State

\* Two creates are in progress at once with both names in the map, holding the
\* ids ROOT+1 and ROOT+2, and the kernel has forgotten the inode of the first.
C18_Witness ==
    \E c1, c2 \in Callers :
        /\ c1 # c2 /\ Named(c1) /\ Named(c2)
        /\ mgr[c1].id = RootInodeID + 1 /\ mgr[c2].id = RootInodeID + 2
        /\ mgr[c1].name # mgr[c2].name
        /\ mgr[c1].name \in DOMAIN fs.names /\ mgr[c2].name \in DOMAIN fs.names
        /\ RootInodeID + 1 \notin DOMAIN fs.nodes

\* The pages of the buffers in the node map, summed.
RECURSIVE SumPages(_, _)
SumPages(nodes, ids) ==
    IF ids = {} THEN 0
    ELSE LET id == CHOOSE x \in ids : TRUE
         IN  countPages(nodes[id].size) + SumPages(nodes, ids \ {id})

\* C19: after any sequence of registerBuffer, forgetBufferNode and ForgetInode
\* (also of an id the node map does not have), the blocks StatFS reports are
\* the sum of ceil(size / pagesize) over the buffers in the node map, never
\* below zero, and the inodes it reports are the buffers in the map plus 1.
C19_StatFSTotals ==
    /\ StatFS(fs).blocks = SumPages(fs.nodes, DOMAIN fs.nodes)
    /\ StatFS(fs).blocks >= 0
    /\ StatFS(fs).inodes = Cardinality(DOMAIN fs.nodes) + 1

\* One buffer is in the map and another was forgotten twice: by the kernel's
\* ForgetInode, then by the forgetBufferNode of its failed create.
C19_Witness ==
    \E c \in Callers :
        /\ mgr[c].pc = "close" /\ mgr[c].err = "EIO"
        /\ mgr[c].id \in Registered /\ mgr[c].id \notin DOMAIN fs.nodes
        /\ Cardinality(DOMAIN fs.nodes) = 1
        /\ StatFS(fs).blocks = countPages(pagesize + 1)

\* ReadFile and WriteFile with the offset inside the file: the slice handed to
\* the capability is min(len, size - offset) long and ends inside the file.
C23_Trimmed ==
    \A w \in Workers, inode \in InodeIDs \cap DOMAIN fs.nodes :
      \A offset \in WriteOffsets, len \in DataLens :
        (/\ offset <= fs.nodes[inode].size
         /\ ReadFile(w, inode, offset, len) \/ WriteFile(w, inode, offset, len))
        => /\ worker'[w].pc = "call"
           /\ worker'[w].arg = Min(len, fs.nodes[inode].size - offset)
           /\ worker'[w].arg >= 0
           /\ offset + worker'[w].arg <= fs.nodes[inode].size

\* A linear ReadAt that starts inside the storage and asks for bytes past its
\* end, with every block of the storage populated: it returns the bytes up to
\* the end.
C23_ReadToEnd ==
    \A r \in LReaders :
        (/\ LinearPassStep(r)
         /\ lreader'[r].offset + lreader'[r].length > linear.len
         /\ BlockRange(linear.len) \subseteq linear.bitmap)
        => /\ lreader'[r].pc = "done"
           /\ lreader'[r].err = "nil"
           /\ lreader'[r].n = linear.len - lreader'[r].offset

\* C23: for ReadFile and WriteFile on a registered inode with 0 <= offset <=
\* size the slice handed to readAt or writeAt has length min(len, size - offset),
\* so no byte at or past size is read or written; a linear ReadAt whose range
\* runs past the end of the storage returns the bytes up to the end instead of
\* blocking or failing.
C23_TrimmedToSize == [][C23_Trimmed /\ C23_ReadToEnd]_vars

\* What ForgetInode does to the maps.
C27_Forget ==
    \A inode \in {RootInodeID} \cup InodeIDs :
        ForgetInode(inode) =>
            IF inode = RootInodeID
            THEN fs' = fs
            ELSE /\ DOMAIN fs'.nodes = DOMAIN fs.nodes \ {inode}
                 /\ \A j \in DOMAIN fs'.nodes : fs'.nodes[j] = fs.nodes[j]
                 /\ fs'.names = fs.names
                 /\ fs'.lastId = fs.lastId

\* A handler that finds no buffer for its inode calls no capability.
C27_NoCall ==
    \A w \in Workers, inode \in InodeIDs \ DOMAIN fs.nodes :
        (\/ ReleaseFileHandle(w, inode)
         \/ \E offset \in WriteOffsets, len \in DataLens :
               ReadFile(w, inode, offset, len) \/ WriteFile(w, inode, offset, len))
        => /\ worker'[w].pc = "idle"
           /\ FindBuffer(fs, inode).err = "ENOENT"
           /\ hist' = hist

\* The replies for an inode that is not in the node map.
C27_Replies ==
    \A inode \in InodeIDs :
        inode \notin DOMAIN fs.nodes =>
            /\ GetInodeAttributes(fs, inode).err = "ENOENT"
            /\ OpenFile(fs, inode).err = "EIO"
            /\ FlushFile(fs, inode).err = "ENOENT"
            /\ FindBuffer(fs, inode).err = "ENOENT"

\* C27: ForgetInode(ROOT) leaves the filesystem as it is; ForgetInode(i), i not
\* ROOT, removes i from the node map and leaves every other inode and the name
\* map alone; after it GetInodeAttributes(i) replies ENOENT, and OpenFile,
\* ReadFile, WriteFile, FlushFile and ReleaseFileHandle issued on i reply an
\* error and call no capability of the forgotten buffer.
C27_ForgetInode == [][C27_Forget /\ C27_NoCall]_vars /\ []C27_Replies

\* The kernel forgot a created inode while its handle was open and released
\* the handle afterwards: close was not called, while another inode is kept.
C27_Witness ==
    \E i \in hist.created :
        /\ i \notin DOMAIN fs.nodes /\ i \notin kern.refs
        /\ kern.handles[i] = 0 /\ ~Releasing(i)
        /\ RealClose(i) /\ hist.closed[i] = 0
        /\ \E j \in DOMAIN fs.nodes : j # i

\* C29: in every reachable state of the filesystem each name of the name map
\* refers to an inode id that is in the node map, so a LookUpInode that succeeds
\* returns the id and the size of a registered buffer, however creates and the
\* kernel's ForgetInode operations interleave.
C29_NamesReferToNodes ==
    Alive =>
        \A name \in DOMAIN fs.names :
            /\ fs.names[name] \in DOMAIN fs.nodes
            /\ LookUpInode(fs, RootInodeID, name).err = "nil"
            /\ LookUpInode(fs, RootInodeID, name).size = fs.nodes[fs.names[name]].size

(***************************************************************************)
(* Manager: properties                                                     *)
(***************************************************************************)

\* New returns its mount error, or Shutdown returns, in this step: cleanup has run.
CleanupStep(m) ==
    \/ manager[m].pc = "mkdir" /\ manager'[m].pc = "failed"
    \/ manager[m].pc = "joined" /\ manager'[m].pc = "closed"

C12_Step ==
    \A m \in Managers :
        (CleanupStep(m) /\ manager[m].existed)
        => dirs'[manager[m].Mountpoint].kind = "dir"

\* C12: when the mountpoint was a directory before New was called, the cleanup
\* at the end of Shutdown and the cleanup of a New whose mount failed leave the
\* directory in place.
C12_KeepsForeignDirectory == [][C12_Step]_vars

====
